---- MODULE Spec2Model ----
(***************************************************************************)
(* Model of the homework-status bot (src/homework.py, src/exceptions.py). *)
(*                                                                         *)
(* main() is a sequential program: a start-up part (check_tokens, the     *)
(* start message) followed by the poll loop `while True`.  The model      *)
(* follows the control position of main in the variable pc; every action  *)
(* is one statement (or one handler) of main together with the functions  *)
(* it calls.  The environment (the review API, the Telegram API, the      *)
(* process environment, the wall clock) is nondeterministic.              *)
(*                                                                         *)
(* Russian message texts of the source are transliterated to ASCII in the *)
(* string constants below.                                                 *)
(***************************************************************************)
EXTENDS Integers, Sequences, FiniteSets, TLC

(***************************************************************************)
(* Bounds of the model.                                                    *)
(***************************************************************************)
\* The wall clock is counted in ticks of one retry period; it starts at 1
\* and the loop's sleep is modelled while the clock is below MaxTime.
MaxTime == 3
\* The API reports current_date in 0..MaxDate.
MaxDate == 1
\* Longest homeworks list handed to check_response on its own.
MaxHomeworks == 2

(***************************************************************************)
(* Program constants.                                                      *)
(***************************************************************************)
\* HTTPStatus.OK
HTTPStatus_OK == 200

\* HOMEWORK_VERDICTS
HOMEWORK_VERDICTS ==
    [approved  |-> "Rabota proverena: revyueru vsyo ponravilos. Ura!",
     reviewing |-> "Rabota vzyata na proverku revyuerom.",
     rejected  |-> "Rabota proverena: u revyuera est zamechaniya."]

(***************************************************************************)
(* Texts.  A text is a record: a template (prefix + body) and the values  *)
(* formatted into it, so that two texts are equal exactly when the Python *)
(* strings are.                                                            *)
(***************************************************************************)
Text(prefix, body, arg1, arg2, num) ==
    [prefix |-> prefix, body |-> body, arg1 |-> arg1, arg2 |-> arg2, num |-> num]

\* '' (the initial prev_msg)
EmptyText == Text("", "", "", "", 0)
\* 'Бот начал работу.'
StartMessage == Text("", "Bot nachal rabotu.", "", "", 0)
\* 'Нет новых статусов'
NoNewStatuses == Text("", "Net novyh statusov", "", "", 0)
\* 'Отсутствует токен. Бот остановлен!'
NoTokenMessage == Text("", "Otsutstvuet token. Bot ostanovlen!", "", "", 0)
\* f'Сбой в работе программы: {error}'
FailurePrefix == "Sboy v rabote programmy: "
FailureText(error) == [error.text EXCEPT !.prefix = FailurePrefix]

(***************************************************************************)
(* Exceptions.  An exception is a record of its class and of str(error);  *)
(* NoError stands for "no exception".                                     *)
(***************************************************************************)
Error(cls, text) == [cls |-> cls, text |-> text]
NoError == Error("", EmptyText)

\* exceptions.py: EmptyResponseFromAPI(NotForSend), TelegramError(NotForSend),
\* WrongResponseCode(Exception): is an exception of class cls caught by
\* `except NotForSend`?
\* (variant: TelegramError derived from Exception)
IsNotForSend_TelegramNotSubclass(cls) ==
    cls \in {"NotForSend", "EmptyResponseFromAPI"}
IsNotForSend(cls) ==
    cls \in {"NotForSend", "EmptyResponseFromAPI", "TelegramError"}

\* TelegramError(f'Ошибка отправки статуса в telegram: {error}.')
TelegramError == Error("TelegramError",
                       Text("", "Oshibka otpravki statusa v telegram: {error}.", "", "", 0))

(***************************************************************************)
(* JSON values.  A Python dict with optional keys is a record with a      *)
(* has_<key> flag per key; a value that may or may not be a list carries  *)
(* its type.                                                               *)
(***************************************************************************)
Homework(has_name, name, has_status, status) ==
    [has_homework_name |-> has_name, homework_name |-> name,
     has_status |-> has_status, status |-> status]

\* A value of the `homeworks` key: a list of homework records, or not a list.
HwValue(type, items) == [type |-> type, items |-> items]

\* A parsed JSON body.  type is the Python type of the value.
Body(type, has_hw, hw, has_cd, cd) ==
    [type |-> type, has_homeworks |-> has_hw, homeworks |-> hw,
     has_current_date |-> has_cd, current_date |-> cd]

NoHw == HwValue("none", <<>>)
NoBody == Body("none", FALSE, NoHw, FALSE, 0)

Statuses == {"approved", "reviewing", "rejected", "cancelled"}

\* Homework records of the inputs of check_response.
AllHomeworks ==
    {Homework(TRUE, n, TRUE, s) : n \in {"hw1", "hw2"}, s \in Statuses}
    \cup {Homework(TRUE, n, FALSE, "") : n \in {"hw1", "hw2"}}
    \cup {Homework(FALSE, "", TRUE, s) : s \in Statuses}
    \cup {Homework(FALSE, "", FALSE, "")}

\* Homework records of the responses of the poll loop.
LoopHomeworks ==
    {Homework(TRUE, "hw1", TRUE, s) : s \in Statuses}
    \cup {Homework(TRUE, "hw1", FALSE, ""),
          Homework(TRUE, "hw2", TRUE, "approved"),
          Homework(FALSE, "", TRUE, "approved")}

SeqsUpTo(S, n) == UNION {[1..k -> S] : k \in 0..n}

Dates == 0..MaxDate

Mappings(hwValues) ==
    {Body("dict", TRUE, hw, TRUE, cd) : hw \in hwValues, cd \in Dates}
    \cup {Body("dict", TRUE, hw, FALSE, 0) : hw \in hwValues}
    \cup {Body("dict", FALSE, NoHw, TRUE, cd) : cd \in Dates}
    \cup {Body("dict", FALSE, NoHw, FALSE, 0)}

NonMappings == {Body(t, FALSE, NoHw, FALSE, 0) : t \in {"list", "str", "int", "NoneType"}}

\* Bodies the API returns to the poll loop: main reads homeworks[0] only.
LoopHwValues ==
    {HwValue("list", <<>>)}
    \cup {HwValue("list", <<h>>) : h \in LoopHomeworks}
    \cup {HwValue("list", <<Homework(TRUE, "hw1", TRUE, "approved"),
                            Homework(TRUE, "hw2", TRUE, "rejected")>>),
          HwValue("str", <<>>)}
LoopBodies == Mappings(LoopHwValues) \cup {Body("list", FALSE, NoHw, FALSE, 0)}

\* Bodies check_response is applied to on its own.
CheckBodies ==
    Mappings({HwValue("list", s) : s \in SeqsUpTo(AllHomeworks, MaxHomeworks)}
             \cup {HwValue(t, <<>>) : t \in {"str", "dict", "NoneType"}})
    \cup NonMappings

(***************************************************************************)
(* The functions of homework.py, as operators.  A function that may raise *)
(* returns a record of the exception raised (NoError when it returns) and *)
(* of the value returned.                                                  *)
(***************************************************************************)
Result(error, value) == [error |-> error, value |-> value]

\* check_tokens: all([PRACTICUM_TOKEN, TELEGRAM_TOKEN, TELEGRAM_CHAT_ID]);
\* a token is TRUE when the environment gives a non-empty value.
\* (variant: any() in place of all())
check_tokens_any(t) ==
    t.PRACTICUM_TOKEN \/ t.TELEGRAM_TOKEN \/ t.TELEGRAM_CHAT_ID
check_tokens(t) ==
    t.PRACTICUM_TOKEN /\ t.TELEGRAM_TOKEN /\ t.TELEGRAM_CHAT_ID

\* get_api_answer, line 73: timestamp = current_timestamp or int(time.time())
\* (variant: no fallback to the clock)
RequestTimestamp_NoFallback(timestamp, now) == timestamp
RequestTimestamp(timestamp, now) == IF timestamp # 0 THEN timestamp ELSE now

\* get_api_answer, lines 89-94: WrongResponseCode for a status other than 200;
\* the text holds the status code and the request's parameters.
WrongCodeError(status_code, timestamp) ==
    Error("WrongResponseCode",
          Text("", "API ne vozvrashchaet 200. Kod otveta {status_code}. Zapros: {params}.",
               ToString(status_code), "", timestamp))

\* get_api_answer, lines 96-102: WrongResponseCode(message, error) for a
\* requests.exceptions.RequestException.
RequestError(exc, timestamp) ==
    Error("WrongResponseCode",
          Text("", "('Proizoshla oshibka pri zaprose k API. Zapros: {params}.', error)",
               exc, "", timestamp))

\* What requests.get and response.json() may do.
FetchOutcome(kind, status_code, body, exc) ==
    [kind |-> kind, status_code |-> status_code, body |-> body, exc |-> exc]

FetchOutcomes ==
    {FetchOutcome("response", HTTPStatus_OK, b, "") : b \in LoopBodies}
    \cup {FetchOutcome("response", c, NoBody, "") : c \in {404, 503}}
    \cup {FetchOutcome("request_exception", 0, NoBody, "ConnectionError")}
    \* response.json() on a body that is not JSON: a RequestException
    \* (requests.exceptions.JSONDecodeError) or a plain ValueError, by the
    \* version of requests installed.
    \cup {FetchOutcome("invalid_json", HTTPStatus_OK, NoBody, e)
            : e \in {"RequestException", "ValueError"}}

\* get_api_answer(current_timestamp), given what the network does.
get_api_answer(timestamp, o) ==
    IF o.kind = "request_exception"
    THEN Result(RequestError(o.exc, timestamp), NoBody)
    ELSE IF o.status_code # HTTPStatus_OK
    THEN Result(WrongCodeError(o.status_code, timestamp), NoBody)
    ELSE IF o.kind = "invalid_json"
    THEN IF o.exc = "RequestException"
         THEN Result(RequestError("JSONDecodeError", timestamp), NoBody)
         ELSE Result(Error("ValueError",
                           Text("", "Expecting value: line 1 column 1 (char 0)", "", "", 0)),
                     NoBody)
    ELSE Result(NoError, o.body)

\* TypeError('Ответ API не является dict.')
NotDictError == Error("TypeError", Text("", "Otvet API ne yavlyaetsya dict.", "", "", 0))
\* EmptyResponseFromAPI('Отсутствует один из ключей, homeworks или current_date, в ответе API.')
EmptyResponseError ==
    Error("EmptyResponseFromAPI",
          Text("", "Otsutstvuet odin iz klyuchey, homeworks ili current_date, v otvete API.",
               "", "", 0))
\* TypeError('homeworks не является list.')
NotListError == Error("TypeError", Text("", "homeworks ne yavlyaetsya list.", "", "", 0))

\* A variant that checks the type of homeworks before the keys.
check_response_TypeFirst(r) ==
    IF r.type # "dict" THEN Result(NotDictError, <<>>)
    ELSE IF r.has_homeworks /\ r.homeworks.type # "list" THEN Result(NotListError, <<>>)
    ELSE IF ~r.has_homeworks \/ ~r.has_current_date THEN Result(EmptyResponseError, <<>>)
    ELSE Result(NoError, r.homeworks.items)

\* check_response(response)
check_response(r) ==
    IF r.type # "dict" THEN Result(NotDictError, <<>>)
    ELSE IF ~r.has_homeworks \/ ~r.has_current_date THEN Result(EmptyResponseError, <<>>)
    ELSE IF r.homeworks.type # "list" THEN Result(NotListError, <<>>)
    ELSE Result(NoError, r.homeworks.items)

\* parse_status(homework)
parse_status(homework) ==
    IF ~homework.has_homework_name
    THEN Result(Error("KeyError",
                      Text("", "'Net klyucha homework_name v otvete API.'", "", "", 0)),
                EmptyText)
    ELSE LET homework_status == IF homework.has_status THEN homework.status ELSE "None"
         IN IF ~(homework.has_status /\ homework.status \in DOMAIN HOMEWORK_VERDICTS)
            THEN Result(Error("ValueError",
                              Text("", "Neizvestnyy status raboty - {homework_status}.",
                                   homework_status, "", 0)),
                        EmptyText)
            ELSE Result(NoError,
                        Text("", "Izmenilsya status proverki raboty \"{homework_name}\". {verdict}",
                             homework.homework_name, HOMEWORK_VERDICTS[homework.status], 0))

\* send_message(bot, message): TelegramError when the bot API fails.
send_message(ok) == IF ok THEN NoError ELSE TelegramError

\* main, line 237: response.get('current_date', int(time.time()))
\* (variant: the clock, whatever the response holds)
NewTimestamp_IgnoreCurrentDate(r, now) == now
NewTimestamp(r, now) == IF r.has_current_date THEN r.current_date ELSE now

\* main, lines 245 and 256: message != prev_msg
\* (variant: no comparison with prev_msg)
ShouldSend_Always(msg, prev) == TRUE
ShouldSend(msg, prev) == msg # prev

\* main, lines 246-247 and 257-258: prev_msg = message is reached only when
\* send_message returns.
\* (variant: prev_msg assigned before the send is known to succeed)
PrevMsgAfterSend_Always(ok, msg, prev) == msg
PrevMsgAfterSend(ok, msg, prev) == IF ok THEN msg ELSE prev

\* main, lines 250 and 253: the handler an exception raised in the try body
\* goes to.
HandlerFor(error) == IF IsNotForSend(error.cls) THEN "not_for_send" ELSE "exception"

(***************************************************************************)
(* State.                                                                  *)
(***************************************************************************)
VARIABLES
    tokens,             \* which of the three environment values are present
    pc,                 \* the control position of main
    clock,              \* int(time.time()), in ticks
    current_timestamp,  \* main's current_timestamp
    prev_msg,           \* main's prev_msg
    response,           \* main's response (the last body get_api_answer returned)
    homeworks,          \* main's homeworks
    message,            \* main's message
    error,              \* the exception raised in the try body of this cycle
    pending,            \* the exception raised inside a handler, not yet propagated
    exit,               \* how the process ended: NoError while it runs
    from_date,          \* the from_date parameter of the last request
    \* History, read by the properties only.
    fetched,            \* get_api_answer returned in this cycle
    repeat,             \* this cycle's body equals the previous cycle's body
    attempt,            \* the send_message call of this cycle's loop body or handler
    prevAttempt,        \* the send_message call of the previous cycle
    lastDelivered,      \* the text of the last send_message call of the loop that returned
    tsAtStart,          \* current_timestamp when this cycle began
    prevMsgAtStart,     \* prev_msg when this cycle began
    bodyMsg,            \* the message the try body computed in this cycle
    prevFromDate,       \* from_date of the previous cycle's request
    prevFetchFailed,    \* the previous cycle's get_api_answer raised WrongResponseCode
    networkUsed,        \* a call of the bot API or of the review API was issued
    criticalLogged,     \* logging.critical was called
    inLoop              \* main has reached `while True`

vars == <<tokens, pc, clock, current_timestamp, prev_msg, response, homeworks,
          message, error, pending, exit, from_date, fetched, repeat, attempt,
          prevAttempt, lastDelivered, tsAtStart, prevMsgAtStart, bodyMsg,
          prevFromDate, prevFetchFailed, networkUsed, criticalLogged, inLoop>>

mainVars == <<tokens, clock, current_timestamp, prev_msg, message, pending, exit,
              from_date, fetched, repeat, attempt, prevAttempt, lastDelivered,
              tsAtStart, prevMsgAtStart, bodyMsg, prevFromDate, prevFetchFailed,
              networkUsed, criticalLogged, inLoop>>

Attempt(made, text, ok) == [made |-> made, text |-> text, ok |-> ok]
NoAttempt == Attempt(FALSE, EmptyText, FALSE)

TokenSets == [PRACTICUM_TOKEN : BOOLEAN, TELEGRAM_TOKEN : BOOLEAN, TELEGRAM_CHAT_ID : BOOLEAN]

\* The state all specifications start from, but for tokens, pc and response.
Idle ==
    /\ clock = 1
    /\ current_timestamp = 0
    /\ prev_msg = EmptyText
    /\ homeworks = <<>>
    /\ message = EmptyText
    /\ error = NoError
    /\ pending = NoError
    /\ exit = NoError
    /\ from_date = 0
    /\ fetched = FALSE
    /\ repeat = FALSE
    /\ attempt = NoAttempt
    /\ prevAttempt = NoAttempt
    /\ lastDelivered = EmptyText
    /\ tsAtStart = 0
    /\ prevMsgAtStart = EmptyText
    /\ bodyMsg = EmptyText
    /\ prevFromDate = 0
    /\ prevFetchFailed = FALSE
    /\ networkUsed = FALSE
    /\ criticalLogged = FALSE
    /\ inLoop = FALSE

\* The process starts main with the environment read (lines 25-27).
Init ==
    /\ tokens \in TokenSets
    /\ pc = "check_tokens"
    /\ response = NoBody
    /\ Idle

(***************************************************************************)
(* main, start-up.                                                         *)
(***************************************************************************)
\* Lines 217-224: sys.exit(message) when a token is missing; otherwise the
\* bot is constructed and current_timestamp is read from the clock.
CheckTokens ==
    /\ pc = "check_tokens"
    /\ IF ~check_tokens(tokens)
       THEN /\ criticalLogged' = TRUE
            /\ exit' = Error("SystemExit", NoTokenMessage)
            /\ pc' = "exited"
            /\ UNCHANGED current_timestamp
       ELSE /\ current_timestamp' = clock
            /\ pc' = "send_start"
            /\ UNCHANGED <<criticalLogged, exit>>
    /\ UNCHANGED <<tokens, clock, prev_msg, response, homeworks, message, error,
                   pending, from_date, fetched, repeat, attempt, prevAttempt,
                   lastDelivered, tsAtStart, prevMsgAtStart, bodyMsg, prevFromDate,
                   prevFetchFailed, networkUsed, inLoop>>

\* Lines 226-232: send_message(bot, start_message) outside any try; a
\* TelegramError leaves main.  Then prev_msg = '' and the loop is entered.
SendStart ==
    /\ pc = "send_start"
    /\ \E ok \in BOOLEAN :
         /\ networkUsed' = TRUE
         /\ IF send_message(ok) = NoError
            THEN /\ prev_msg' = EmptyText
                 /\ inLoop' = TRUE
                 /\ pc' = "fetch"
                 /\ UNCHANGED exit
            ELSE /\ exit' = send_message(ok)
                 /\ pc' = "exited"
                 /\ UNCHANGED <<prev_msg, inLoop>>
    /\ UNCHANGED <<tokens, clock, current_timestamp, response, homeworks, message,
                   error, pending, from_date, fetched, repeat, attempt, prevAttempt,
                   lastDelivered, tsAtStart, prevMsgAtStart, bodyMsg, prevFromDate,
                   prevFetchFailed, criticalLogged>>

(***************************************************************************)
(* main, the poll loop.                                                    *)
(***************************************************************************)
\* Line 236: response = get_api_answer(current_timestamp).  The first
\* statement of a cycle; the history of the cycle is reset here.
GetApiAnswer ==
    /\ pc = "fetch"
    /\ \E o \in FetchOutcomes :
         LET timestamp == RequestTimestamp(current_timestamp, clock)
             r == get_api_answer(timestamp, o)
         IN /\ from_date' = timestamp
            /\ networkUsed' = TRUE
            /\ error' = r.error
            /\ IF r.error = NoError
               THEN /\ response' = r.value
                    /\ fetched' = TRUE
                    /\ repeat' = (fetched /\ r.value = response)
                    /\ pc' = "set_timestamp"
               ELSE /\ fetched' = FALSE
                    /\ repeat' = FALSE
                    /\ pc' = HandlerFor(r.error)
                    /\ UNCHANGED response
    /\ prevAttempt' = attempt
    /\ attempt' = NoAttempt
    /\ tsAtStart' = current_timestamp
    /\ prevMsgAtStart' = prev_msg
    /\ bodyMsg' = EmptyText
    /\ prevFromDate' = from_date
    /\ prevFetchFailed' = (error.cls = "WrongResponseCode")
    /\ UNCHANGED <<tokens, clock, current_timestamp, prev_msg, homeworks, message,
                   pending, exit, lastDelivered, criticalLogged, inLoop>>

\* Lines 237-239: current_timestamp = response.get('current_date', int(time.time()));
\* AttributeError when the body is not a dict.
SetTimestamp ==
    /\ pc = "set_timestamp"
    /\ IF response.type = "dict"
       THEN /\ current_timestamp' = NewTimestamp(response, clock)
            /\ pc' = "check_response"
            /\ UNCHANGED error
       ELSE /\ error' = Error("AttributeError",
                              Text("", "'{type}' object has no attribute 'get'",
                                   response.type, "", 0))
            /\ pc' = HandlerFor(error')
            /\ UNCHANGED current_timestamp
    /\ UNCHANGED <<tokens, clock, prev_msg, response, homeworks, message, pending,
                   exit, from_date, fetched, repeat, attempt, prevAttempt,
                   lastDelivered, tsAtStart, prevMsgAtStart, bodyMsg, prevFromDate,
                   prevFetchFailed, networkUsed, criticalLogged, inLoop>>

\* Line 240: homeworks = check_response(response)
CheckResponse ==
    /\ pc = "check_response"
    /\ LET r == check_response(response)
       IN IF r.error = NoError
          THEN /\ homeworks' = r.value
               /\ pc' = "parse_status"
               /\ UNCHANGED error
          ELSE /\ error' = r.error
               /\ pc' = HandlerFor(r.error)
               /\ UNCHANGED homeworks
    /\ UNCHANGED <<response, mainVars>>

\* Lines 241-244: message = parse_status(homeworks[0]) or 'Нет новых статусов'
ParseStatus ==
    /\ pc = "parse_status"
    /\ LET r == IF homeworks # <<>> THEN parse_status(homeworks[1])
                ELSE Result(NoError, NoNewStatuses)
       IN IF r.error = NoError
          THEN /\ message' = r.value
               /\ bodyMsg' = r.value
               /\ pc' = "deliver"
               /\ UNCHANGED error
          ELSE /\ error' = r.error
               /\ pc' = HandlerFor(r.error)
               /\ UNCHANGED <<message, bodyMsg>>
    /\ UNCHANGED <<tokens, clock, current_timestamp, prev_msg, response, homeworks,
                   pending, exit, from_date, fetched, repeat, attempt, prevAttempt,
                   lastDelivered, tsAtStart, prevMsgAtStart, prevFromDate,
                   prevFetchFailed, networkUsed, criticalLogged, inLoop>>

\* Lines 245-249: send the message when it differs from prev_msg, and then
\* prev_msg = message; a TelegramError raised by send_message goes to the
\* handlers of the try.
Deliver ==
    /\ pc = "deliver"
    /\ IF ShouldSend(message, prev_msg)
       THEN \E ok \in BOOLEAN :
              /\ attempt' = Attempt(TRUE, message, ok)
              /\ networkUsed' = TRUE
              /\ prev_msg' = PrevMsgAfterSend(ok, message, prev_msg)
              /\ lastDelivered' = IF ok THEN message ELSE lastDelivered
              /\ error' = send_message(ok)
              /\ pc' = IF ok THEN "sleep" ELSE HandlerFor(send_message(ok))
       ELSE /\ pc' = "sleep"
            /\ UNCHANGED <<attempt, networkUsed, prev_msg, lastDelivered, error>>
    /\ UNCHANGED <<tokens, clock, current_timestamp, response, homeworks, message,
                   pending, exit, from_date, fetched, repeat, prevAttempt, tsAtStart,
                   prevMsgAtStart, bodyMsg, prevFromDate, prevFetchFailed,
                   criticalLogged, inLoop>>

\* Lines 250-252: except NotForSend: the failure text is logged.
HandleNotForSend ==
    /\ pc = "not_for_send"
    /\ message' = FailureText(error)
    /\ pc' = "sleep"
    /\ UNCHANGED <<tokens, clock, current_timestamp, prev_msg, response, homeworks,
                   error, pending, exit, from_date, fetched, repeat, attempt,
                   prevAttempt, lastDelivered, tsAtStart, prevMsgAtStart, bodyMsg,
                   prevFromDate, prevFetchFailed, networkUsed, criticalLogged, inLoop>>

\* Lines 253-258: except Exception: the failure text is logged and sent when
\* it differs from prev_msg.  A TelegramError raised by this send_message is
\* raised inside a handler: no except clause of the try catches it, and it
\* propagates once the finally clause has run.
HandleException ==
    /\ pc = "exception"
    /\ message' = FailureText(error)
    /\ IF ShouldSend(message', prev_msg)
       THEN \E ok \in BOOLEAN :
              /\ attempt' = Attempt(TRUE, message', ok)
              /\ networkUsed' = TRUE
              /\ prev_msg' = PrevMsgAfterSend(ok, message', prev_msg)
              /\ lastDelivered' = IF ok THEN message' ELSE lastDelivered
              /\ pending' = send_message(ok)
       ELSE UNCHANGED <<attempt, networkUsed, prev_msg, lastDelivered, pending>>
    /\ pc' = "sleep"
    /\ UNCHANGED <<tokens, clock, current_timestamp, response, homeworks, error,
                   exit, from_date, fetched, repeat, prevAttempt, tsAtStart,
                   prevMsgAtStart, bodyMsg, prevFromDate, prevFetchFailed,
                   criticalLogged, inLoop>>

\* Lines 259-260: finally: time.sleep(RETRY_PERIOD); then the next cycle, or
\* the pending exception leaves the loop and main.
Sleep ==
    /\ pc = "sleep"
    /\ clock < MaxTime
    /\ clock' = clock + 1
    /\ IF pending = NoError
       THEN /\ pc' = "fetch"
            /\ UNCHANGED exit
       ELSE /\ exit' = pending
            /\ pc' = "exited"
    /\ UNCHANGED <<tokens, current_timestamp, prev_msg, response, homeworks, message,
                   error, pending, from_date, fetched, repeat, attempt, prevAttempt,
                   lastDelivered, tsAtStart, prevMsgAtStart, bodyMsg, prevFromDate,
                   prevFetchFailed, networkUsed, criticalLogged, inLoop>>

Next ==
    \/ CheckTokens
    \/ SendStart
    \/ GetApiAnswer
    \/ SetTimestamp
    \/ CheckResponse
    \/ ParseStatus
    \/ Deliver
    \/ HandleNotForSend
    \/ HandleException
    \/ Sleep

Spec == Init /\ [][Next]_vars

(***************************************************************************)
(* check_response on its own: the response is any body of CheckBodies,    *)
(* mappings or not.                                                        *)
(***************************************************************************)
InitCheck ==
    /\ tokens = [PRACTICUM_TOKEN |-> TRUE, TELEGRAM_TOKEN |-> TRUE, TELEGRAM_CHAT_ID |-> TRUE]
    /\ pc = "call_check_response"
    /\ response \in CheckBodies
    /\ Idle

CallCheckResponse ==
    /\ pc = "call_check_response"
    /\ LET r == check_response(response)
       IN /\ homeworks' = r.value
          /\ error' = r.error
    /\ pc' = "check_response_done"
    /\ UNCHANGED <<response, mainVars>>

NextCheck == CallCheckResponse

SpecCheck == InitCheck /\ [][NextCheck]_vars

(***************************************************************************)
(* Properties.                                                             *)
(***************************************************************************)
\* The end of a cycle: the try statement is done but for the sleep.
CycleEnd == pc = "sleep"

\* The positions of a cycle after its fetch (the clock ticks in Sleep).
InCycle ==
    pc \in {"set_timestamp", "check_response", "parse_status", "deliver",
            "not_for_send", "exception", "sleep"}

\* A response the try body turns into a message: a mapping with both keys
\* and a list of homeworks that is empty or starts with a record that has a
\* name and a known status.
ValidResponse(r) ==
    /\ r.type = "dict"
    /\ r.has_homeworks /\ r.has_current_date
    /\ r.homeworks.type = "list"
    /\ \/ r.homeworks.items = <<>>
       \/ LET h == r.homeworks.items[1]
          IN h.has_homework_name /\ h.has_status
             /\ h.status \in {"approved", "reviewing", "rejected"}

\* The try body of this cycle raised an exception outside the NotForSend family.
GenericErrorRaised ==
    /\ error # NoError
    /\ error.cls \notin {"NotForSend", "EmptyResponseFromAPI", "TelegramError"}

\* C1: every error raised in a cycle of the poll loop is caught and the loop
\* goes on; in particular a delivery error raised by the send_message call of
\* the generic handler is only logged and does not end the process: once the
\* loop is entered the process never ends.
C1_LoopErrorsNeverEndProcess == inLoop => (pc # "exited" /\ exit = NoError)

\* C2 (as stated): at the end of the second of two consecutive cycles with
\* the same valid response, exactly one delivery attempt was made over the
\* two cycles, by the first, whatever its outcome.
C2_ExactlyOneAttemptWhateverOutcome ==
    (CycleEnd /\ repeat /\ ValidResponse(response))
        => (prevAttempt.made /\ ~attempt.made)

\* C2 (amended): every cycle that computes a message attempts delivery
\* exactly when the message differs from prev_msg at its start; over two
\* consecutive cycles with the same valid response, when the first cycle's
\* attempt succeeded the second only logs (one attempt), when it failed the
\* second attempts the same message again (two attempts), and when the first
\* made none the second makes none.
C2_RepeatedResponse ==
    /\ (CycleEnd /\ bodyMsg # EmptyText) => (attempt.made <=> bodyMsg # prevMsgAtStart)
    /\ (CycleEnd /\ repeat /\ ValidResponse(response)) =>
          /\ (prevAttempt.made /\ prevAttempt.ok) => ~attempt.made
          /\ (prevAttempt.made /\ ~prevAttempt.ok) =>
                (attempt.made /\ attempt.text = prevAttempt.text)
          /\ ~prevAttempt.made => ~attempt.made

C2_Witness ==
    /\ CycleEnd /\ repeat /\ ValidResponse(response)
    /\ prevAttempt.made /\ prevAttempt.ok /\ ~attempt.made
    /\ prev_msg = bodyMsg

\* C3: in a cycle whose try body raised EmptyResponseFromAPI or TelegramError
\* no delivery attempt carries a failure text, prev_msg keeps the value it
\* had when the cycle began, nothing propagates out of the handler, and at
\* the end of the cycle the failure text is what was logged.
C3_NotForSendOnlyLogged ==
    error.cls \in {"EmptyResponseFromAPI", "TelegramError"} =>
        /\ ~(attempt.made /\ attempt.text.prefix = FailurePrefix)
        /\ prev_msg = prevMsgAtStart
        /\ pending = NoError
        /\ CycleEnd => message = FailureText(error)

C3_Witness ==
    /\ CycleEnd
    /\ error = TelegramError
    /\ attempt.made /\ ~attempt.ok /\ attempt.text = bodyMsg
    /\ prevMsgAtStart # EmptyText
    /\ prev_msg = prevMsgAtStart

\* C4: in a cycle whose try body raised an exception outside the NotForSend
\* family, the failure text is sent exactly when it differs from prev_msg,
\* prev_msg becomes the failure text exactly when that attempt succeeds, and
\* after the sleep the loop fetches again.
C4_GenericErrorNotifiedAndLoopGoesOn ==
    [][(CycleEnd /\ GenericErrorRaised) =>
          /\ attempt.made <=> FailureText(error) # prevMsgAtStart
          /\ attempt.made => attempt.text = FailureText(error)
          /\ prev_msg = IF attempt.made /\ attempt.ok THEN FailureText(error)
                        ELSE prevMsgAtStart
          /\ pc' \in {"sleep", "fetch"}]_vars

\* The part of C4 that does not depend on the loop going on.
GenericErrorNotified ==
    (CycleEnd /\ GenericErrorRaised) =>
        /\ attempt.made <=> FailureText(error) # prevMsgAtStart
        /\ attempt.made => attempt.text = FailureText(error)
        /\ prev_msg = IF attempt.made /\ attempt.ok THEN FailureText(error)
                      ELSE prevMsgAtStart

\* C5: with any of the three tokens absent, main logs a critical message
\* and exits through sys.exit before any network call: it is at its first
\* statement or has exited, no call of the bot API or of the review API was
\* issued and the loop was not entered.
C5_MissingTokenExitsBeforeNetwork ==
    (~tokens.PRACTICUM_TOKEN \/ ~tokens.TELEGRAM_TOKEN \/ ~tokens.TELEGRAM_CHAT_ID) =>
        /\ pc \in {"check_tokens", "exited"}
        /\ ~networkUsed
        /\ ~inLoop
        /\ from_date = 0
        /\ pc = "exited" => (criticalLogged /\ exit = Error("SystemExit", NoTokenMessage))

C5_Witness ==
    /\ pc = "exited"
    /\ tokens.PRACTICUM_TOKEN /\ tokens.TELEGRAM_TOKEN /\ ~tokens.TELEGRAM_CHAT_ID
    /\ criticalLogged
    /\ ~networkUsed

\* C6: the process ends on its own only through the missing-token exit:
\* with all three tokens present it never ends, whatever the outcome of the
\* start message, of each fetch and of each delivery attempt.
C6_RunsForeverWithAllTokens ==
    (tokens.PRACTICUM_TOKEN /\ tokens.TELEGRAM_TOKEN /\ tokens.TELEGRAM_CHAT_ID)
        => pc # "exited"

\* C7: prev_msg is the text of the last delivery of the loop that succeeded
\* (empty before the first); a failed attempt leaves prev_msg as it was when
\* the cycle began, so that the same message computed in the next cycle is
\* attempted again.
C7_PrevMsgIsLastDelivered ==
    /\ prev_msg = lastDelivered
    /\ (attempt.made /\ ~attempt.ok) => prev_msg = prevMsgAtStart
    /\ (CycleEnd /\ prevAttempt.made /\ ~prevAttempt.ok /\ bodyMsg = prevAttempt.text)
          => (attempt.made /\ attempt.text = bodyMsg)

C7_Witness ==
    /\ CycleEnd
    /\ prevAttempt.made /\ ~prevAttempt.ok /\ bodyMsg = prevAttempt.text
    /\ attempt.made /\ attempt.ok
    /\ prev_msg = bodyMsg /\ prevMsgAtStart # bodyMsg

\* C8 (as stated): in the loop current_timestamp never decreases.
C8_TimestampMonotonic ==
    [][inLoop => current_timestamp' >= current_timestamp]_vars

\* C8 (amended): in the loop current_timestamp changes only at line 237,
\* where a mapping's current_date (the wall clock when the key is absent)
\* is assigned to it as it is; so it is never smaller than before unless
\* that value is smaller than the timestamp it replaces.
C8_TimestampFollowsResponse ==
    [][inLoop =>
          LET new == IF response.has_current_date THEN response.current_date ELSE clock
          IN /\ current_timestamp' # current_timestamp => pc = "set_timestamp"
             /\ (pc = "set_timestamp" /\ response.type = "dict")
                   => current_timestamp' = new
             /\ new >= current_timestamp => current_timestamp' >= current_timestamp]_vars

C8_Witness ==
    /\ pc = "check_response"
    /\ response.has_current_date
    /\ current_timestamp = response.current_date
    /\ current_timestamp > tsAtStart

C10_FailedFetchRepeatsFromDate ==
    /\ (error.cls = "WrongResponseCode" /\ pc \in {"exception", "sleep"})
          => current_timestamp = tsAtStart
    /\ prevFetchFailed => from_date = prevFromDate
    /\ (fetched /\ response.type = "dict"
        /\ pc \in {"check_response", "parse_status", "deliver", "not_for_send",
                   "exception", "sleep"})
          => current_timestamp =
                IF response.has_current_date THEN response.current_date ELSE clock

\* C10 (amended): as stated, but the next cycle requests the same from_date
\* only when current_timestamp is not 0; when it is 0 get_api_answer requests
\* from the wall-clock time instead.
C10_FailedFetchKeepsTimestamp ==
    /\ (error.cls = "WrongResponseCode" /\ pc \in {"exception", "sleep"})
          => current_timestamp = tsAtStart
    /\ prevFetchFailed =>
          /\ tsAtStart # 0 => (from_date = prevFromDate /\ from_date = tsAtStart)
          /\ (tsAtStart = 0 /\ InCycle) => (from_date = clock /\ prevFromDate < clock)
    /\ (fetched /\ response.type = "dict"
        /\ pc \in {"check_response", "parse_status", "deliver", "not_for_send",
                   "exception", "sleep"})
          => current_timestamp =
                IF response.has_current_date THEN response.current_date ELSE clock

C10_Witness ==
    /\ CycleEnd
    /\ prevFetchFailed /\ from_date = prevFromDate
    /\ fetched /\ response.type = "dict"
    /\ attempt.made /\ ~attempt.ok
    /\ current_timestamp # tsAtStart
====
